---------------------------- MODULE Spec2Model ----------------------------
(***************************************************************************)
(* Audio Transcription Pro (WhisperLive Chrome extension).                 *)
(*                                                                         *)
(* SpecRender : the transcription overlay of the content script            *)
(*          (transcript and STOP messages, updateTranscription, getLines). *)
(* SpecUpdate : one transcript message handled by a new content script,    *)
(*          with the surface and line-height it was measured on.           *)
(* SpecResample : one call of resampleTo16kHZ (options.js).                *)
(* Spec   : the streaming session of the options page (options.js,         *)
(*          startRecord and the handlers it installs on the socket and on  *)
(*          the script processor).                                         *)
(* SpecBg : the background orchestrator (background script listed in       *)
(*          README.md): startCapture / stopCapture invocations that        *)
(*          overlap at their await points.                                 *)
(***************************************************************************)
EXTENDS Integers, Sequences, FiniteSets, Bags, TLC

(***************************************************************************)
(* Bounds of the model.                                                    *)
(***************************************************************************)
\* inbound socket messages handled in one session
MaxMsgs == 2
\* capture callbacks (audio blocks) delivered in one session
MaxBlocks == 2
\* samples per audio block (4096 in the program, options.js:281)
BlockLen == 2
\* samples in the array one call of resampleTo16kHZ is given
MaxSamples == 4
\* start requests (popup message or keyboard command) the background receives
MaxStarts == 2
\* stop requests (stopCapture / toggleCaptureButtons message, keyboard command)
MaxStops == 2
\* segments in one transcript message
MaxSegs == 2

(***************************************************************************)
(* Values.                                                                 *)
(***************************************************************************)
\* JavaScript null / undefined, and "field absent" of a parsed message
Null == "null"
Undefined == "undefined"
Absent == "absent"

\* the client id generated by generateUUID() for this session
uuid == "me"

\* silence threshold 0.01 of onaudioprocess, in thousandths
SilenceThreshold == 10

\* sample values in thousandths of full scale
Samples == {-1000, -11, -10, 0, 10, 11}

\* blocks that are silent except possibly at one sample
AudioBlocks ==
    {[i \in 1..BlockLen |-> IF i = k THEN v ELSE 0] :
        k \in 1..BlockLen, v \in Samples}

\* an inbound frame that JSON.parse rejects
Malformed == [raw |-> "not json"]

\* JSON.parse(event.data) returns
Parses(f) == "uid" \in DOMAIN f

\* parsed inbound frames: every combination of the fields the handler reads
ParsedMsgs ==
    [uid      : {"me", "other"},
     status   : {"WAIT", Absent},
     message  : {"SERVER_READY", "DISCONNECT", "2 minutes"},
     language : {Absent, "en", "fr"},
     segments : {Absent, "segs"}]

InboundFrames == ParsedMsgs \cup {Malformed}

StatusKinds ==
    {"ready", "busy", "foreign", "language", "disconnect", "transcription",
     "diagnostic", "closed", "error", "capture"}

VARIABLES
    \* ---- options page: one streaming session (startRecord's closure) ----
    page,          \* the options page: "starting" (startRecord awaits the
                   \* capture), "alive" (handlers installed), "failed"
                   \* (startRecord ended in its catch), "closed" (tab gone)
    optLanguage,   \* options.language as received in start_capture
    readyState,    \* socket.readyState
    closePending,  \* an error event was fired, the close event is still due
    isServerReady, \* let isServerReady
    language,      \* let language
    outbound,      \* what socket.send() was given, in order
    toTab,         \* chrome.tabs.sendMessage(options.currentTabId, ...) calls
    toRuntime,     \* chrome.runtime.sendMessage(...) calls
    statusCount,   \* updateStatus('connection'|'server', ...) calls by kind
    pendingWait,   \* WAIT handlers suspended at await sendMessageToTab
    nIn,           \* inbound frames handled so far
    nBlocks,       \* capture callbacks delivered so far
    heard,         \* history: literals of the frames addressed to this client
    \* ---- background script ----
    state,         \* const state = {currentTabId, optionTabId, isCapturing}
    calls,         \* bag of startCapture / stopCapture calls suspended at an await
    liveTabs,      \* options tabs that exist in the browser
    recording,     \* options tabs whose page received start_capture
    capturingState,\* chrome.storage.local capturingState.isCapturing
    stopSent,      \* STOP messages sent to the content script
    removeReqs,    \* chrome.tabs.remove requests
    nTabs,         \* options tabs created so far
    nStarts,       \* start requests received
    nStops,        \* stop requests received
    overlap,       \* history: what the state held when two stopCapture calls
                   \* made by the message listener first overlapped
    \* ---- content script: the transcription overlay ----
    transcriptionContainer, \* let transcriptionContainer (null | the overlay)
    textSegments,  \* let textSegments: the lines of the last getLines call
    shown,         \* innerHTML of the text elements t0, t1, t2 (<<>>: no overlay)
    measured,      \* history: the text the last getLines call was given
    tops,          \* style.top of the text elements t0, t1, t2
    incoming,      \* one transcript message on its way to the listener,
                   \* with the surface and line-height the page gives it
    \* ---- options page: one call of resampleTo16kHZ ----
    audioData,     \* the samples passed in
    origSampleRate,\* the rate passed in
    resampledData, \* the array returned
    springFactor,  \* const springFactor: the quotient as it was evaluated
    returned       \* whether the call has returned

sessVars ==
    <<page, optLanguage, readyState, closePending, isServerReady, language,
      outbound, toTab, toRuntime, statusCount, pendingWait, nIn, nBlocks,
      heard>>

bgVars ==
    <<state, calls, liveTabs, recording, capturingState, stopSent, removeReqs,
      nTabs, nStarts, nStops, overlap>>

rendVars == <<transcriptionContainer, textSegments, shown, measured, tops>>

lineVars == <<incoming>>

resVars ==
    <<audioData, origSampleRate, resampledData, springFactor, returned>>

vars == <<sessVars, bgVars, rendVars, lineVars, resVars>>

(***************************************************************************)
(* How options.language reaches the options page.                          *)
(***************************************************************************)
\* values chrome.storage.local may hold under "selectedLanguage"
StoredLanguages == {Undefined, Null, "en"}

\* popup: state.selectedLanguage starts null and takes the stored value when
\* one is stored; the startCapture message carries it
PopupLanguage(stored) == IF stored = Undefined THEN Null ELSE stored

\* keyboard shortcut: settings.selectedLanguage straight from storage; a
\* missing key is undefined and stays undefined in the options page
CommandLanguage(stored) == stored

OptionsLanguage(origin, stored) ==
    IF origin = "popup" THEN PopupLanguage(stored) ELSE CommandLanguage(stored)

(***************************************************************************)
(* Logs.                                                                   *)
(***************************************************************************)
Bump(kind) == [statusCount EXCEPT ![kind] = @ + 1]

\* JSON.stringify leaves out a property whose value is undefined
JsonField(v) == IF v = Undefined THEN Absent ELSE v

\* JSON.stringify({uid, language, task, model, use_vad})
ConfigMsg ==
    [type |-> "config", uid |-> uuid, language |-> JsonField(optLanguage),
     task |-> "options.task", model |-> "options.modelSize",
     use_vad |-> "options.useVad"]

AudioFrame(n) == [type |-> "audio", block |-> n]

\* variant: a message overtakes those sent before it
SentAhead(q, x) == <<x>> \o q

\* socket.send(x) / chrome.tabs.sendMessage(tab, x) called synchronously by
\* a handler: x leaves after everything sent by earlier calls
Sent(q, x) == Append(q, x)

AudioFramesOf(s) == {i \in 1..Len(s) : s[i].type = "audio"}

(***************************************************************************)
(* socket.onmessage: the guards of its branches, in source order.          *)
(***************************************************************************)
\* variant: the client-id check left out
UidMatchesAlways(m) == TRUE

UidMatches(m) == m.uid = uuid

IsWait(m) == m.status = "WAIT"

IsFirstServerReady(m) == ~isServerReady /\ m.message = "SERVER_READY"

IsLanguageDetection(m) == language = Null /\ m.language # Absent

IsDisconnect(m) == m.message = "DISCONNECT"

HasSegments(m) == m.segments # Absent

\* history only: what the server has said to this client so far
Literals(f) ==
    IF Parses(f) /\ f.uid = "me"
    THEN ({f.status} \cup {f.message}) \cap {"WAIT", "SERVER_READY", "DISCONNECT"}
    ELSE {}

\* variant: the segments are looked at before the language
BranchSegmentsFirst(m) ==
    IF ~UidMatches(m) THEN "foreign"
    ELSE IF IsWait(m) THEN "wait"
    ELSE IF IsFirstServerReady(m) THEN "ready"
    ELSE IF HasSegments(m) THEN "segments"
    ELSE IF IsLanguageDetection(m) THEN "language"
    ELSE IF IsDisconnect(m) THEN "disconnect"
    ELSE "none"

\* the branch a parsed frame takes
Branch(m) ==
    IF ~UidMatches(m) THEN "foreign"
    ELSE IF IsWait(m) THEN "wait"
    ELSE IF IsFirstServerReady(m) THEN "ready"
    ELSE IF IsLanguageDetection(m) THEN "language"
    ELSE IF IsDisconnect(m) THEN "disconnect"
    ELSE IF HasSegments(m) THEN "segments"
    ELSE "none"

\* variant: the catch also gives the session up
OnParseErrorStops ==
    /\ statusCount' = Bump("diagnostic")
    /\ toRuntime' = Append(toRuntime, [action |-> "toggleCaptureButtons"])
    /\ UNCHANGED <<isServerReady, language, toTab, pendingWait>>

\* JSON.parse throws: the catch of onmessage writes one status line
OnParseError ==
    /\ statusCount' = Bump("diagnostic")
    /\ UNCHANGED <<isServerReady, language, toTab, toRuntime, pendingWait>>

OnMessage(m) ==
    /\ page = "alive"
    /\ readyState = "OPEN"
    /\ nIn < MaxMsgs
    /\ nIn' = nIn + 1
    /\ heard' = heard \cup Literals(m)
    /\ IF ~Parses(m)
       THEN OnParseError
       ELSE CASE Branch(m) = "foreign" ->
                 /\ statusCount' = Bump("foreign")
                 /\ UNCHANGED <<isServerReady, language, toTab, toRuntime,
                                pendingWait>>
            [] Branch(m) = "wait" ->
                 \* runs up to await sendMessageToTab; WaitResume is the rest
                 /\ statusCount' = Bump("busy")
                 /\ toTab' = Append(toTab, [type |-> "showWaitPopup",
                                            data |-> m.message])
                 /\ pendingWait' = pendingWait + 1
                 /\ UNCHANGED <<isServerReady, language, toRuntime>>
            [] Branch(m) = "ready" ->
                 /\ isServerReady' = TRUE
                 /\ statusCount' = Bump("ready")
                 /\ UNCHANGED <<language, toTab, toRuntime, pendingWait>>
            [] Branch(m) = "language" ->
                 /\ language' = m.language
                 /\ statusCount' = Bump("language")
                 /\ toRuntime' = Append(toRuntime,
                        [action |-> "updateSelectedLanguage",
                         detectedLanguage |-> m.language])
                 /\ UNCHANGED <<isServerReady, toTab, pendingWait>>
            [] Branch(m) = "disconnect" ->
                 /\ statusCount' = Bump("disconnect")
                 /\ toRuntime' = Append(toRuntime,
                        [action |-> "toggleCaptureButtons"])
                 /\ UNCHANGED <<isServerReady, language, toTab, pendingWait>>
            [] Branch(m) = "segments" ->
                 /\ statusCount' = Bump("transcription")
                 /\ toTab' = Sent(toTab, [type |-> "transcript", data |-> m])
                 /\ UNCHANGED <<isServerReady, language, toRuntime, pendingWait>>
            [] OTHER ->
                 UNCHANGED <<isServerReady, language, toTab, toRuntime,
                             statusCount, pendingWait>>
    /\ UNCHANGED <<page, optLanguage, readyState, closePending, outbound, nBlocks>>
    /\ UNCHANGED <<bgVars, rendVars, lineVars, resVars>>

\* the WAIT branch after its await: the two notifications to the background
WaitResume ==
    /\ page = "alive"
    /\ pendingWait > 0
    /\ pendingWait' = pendingWait - 1
    /\ toRuntime' = toRuntime \o <<[action |-> "toggleCaptureButtons"],
                                   [action |-> "stopCapture"]>>
    /\ UNCHANGED <<page, optLanguage, readyState, closePending, isServerReady,
                   language, outbound, toTab, statusCount, nIn, nBlocks, heard>>
    /\ UNCHANGED <<bgVars, rendVars, lineVars, resVars>>

(***************************************************************************)
(* socket.onopen / onerror / onclose.                                      *)
(***************************************************************************)
\* variant: onopen does not send the configuration
SocketOpenSilent ==
    /\ page = "alive"
    /\ readyState = "CONNECTING"
    /\ readyState' = "OPEN"
    /\ UNCHANGED <<page, optLanguage, closePending, isServerReady, language,
                   outbound, toTab, toRuntime, statusCount, pendingWait, nIn,
                   nBlocks, heard>>
    /\ UNCHANGED <<bgVars, rendVars, lineVars, resVars>>

SocketOpen ==
    /\ page = "alive"
    /\ readyState = "CONNECTING"
    /\ readyState' = "OPEN"
    /\ outbound' = Append(outbound, ConfigMsg)
    /\ UNCHANGED <<page, optLanguage, closePending, isServerReady, language,
                   toTab, toRuntime, statusCount, pendingWait, nIn, nBlocks, heard>>
    /\ UNCHANGED <<bgVars, rendVars, lineVars, resVars>>

\* the connection fails: readyState is CLOSED when the error event fires, and
\* the close event follows
SocketError ==
    /\ page = "alive"
    /\ readyState \in {"CONNECTING", "OPEN"}
    /\ readyState' = "CLOSED"
    /\ closePending' = TRUE
    /\ statusCount' = Bump("error")
    /\ toRuntime' = Append(toRuntime, [action |-> "toggleCaptureButtons"])
    /\ UNCHANGED <<page, optLanguage, isServerReady, language, outbound, toTab,
                   pendingWait, nIn, nBlocks, heard>>
    /\ UNCHANGED <<bgVars, rendVars, lineVars, resVars>>

SocketClose ==
    /\ page = "alive"
    /\ \/ readyState = "OPEN"
       \/ closePending
    /\ readyState' = "CLOSED"
    /\ closePending' = FALSE
    /\ statusCount' = Bump("closed")
    /\ toRuntime' = Append(toRuntime, [action |-> "toggleCaptureButtons"])
    /\ UNCHANGED <<page, optLanguage, isServerReady, language, outbound, toTab,
                   pendingWait, nIn, nBlocks, heard>>
    /\ UNCHANGED <<bgVars, rendVars, lineVars, resVars>>

(***************************************************************************)
(* processor.onaudioprocess.                                               *)
(***************************************************************************)
Abs(x) == IF x < 0 THEN -x ELSE x

\* variant: the sign of a sample is not dropped before the comparison
HasAudioSigned(b) == \E i \in DOMAIN b : b[i] > SilenceThreshold

\* inputData.some(sample => Math.abs(sample) > 0.01)
HasAudio(b) == \E i \in DOMAIN b : Abs(b[i]) > SilenceThreshold

\* variant: the callback does not wait for the server
ProcessorGateOpen == TRUE

\* if (!audioContext || !isServerReady) return;
ProcessorGate == isServerReady

\* variant: the block is sent whatever the state of the socket
SocketIsOpenAlways == TRUE

\* if (socket.readyState === WebSocket.OPEN)
SocketIsOpen == readyState = "OPEN"

\* variant: a silent block is sent like any other
OnAudioProcessUnfiltered(b) ==
    /\ page = "alive"
    /\ nBlocks < MaxBlocks
    /\ nBlocks' = nBlocks + 1
    /\ IF ProcessorGate /\ SocketIsOpen
       THEN outbound' = Sent(outbound, AudioFrame(nBlocks + 1))
       ELSE UNCHANGED outbound
    /\ UNCHANGED <<page, optLanguage, readyState, closePending, isServerReady,
                   language, toTab, toRuntime, statusCount, pendingWait, nIn, heard>>
    /\ UNCHANGED <<bgVars, rendVars, lineVars, resVars>>

OnAudioProcess(b) ==
    /\ page = "alive"
    /\ nBlocks < MaxBlocks
    /\ nBlocks' = nBlocks + 1
    /\ IF ProcessorGate /\ HasAudio(b) /\ SocketIsOpen
       THEN outbound' = Sent(outbound, AudioFrame(nBlocks + 1))
       ELSE UNCHANGED outbound
    /\ UNCHANGED <<page, optLanguage, readyState, closePending, isServerReady,
                   language, toTab, toRuntime, statusCount, pendingWait, nIn, heard>>
    /\ UNCHANGED <<bgVars, rendVars, lineVars, resVars>>

(***************************************************************************)
(* The options tab goes away (the background removes it in stopCapture or  *)
(* startCapture, or stream.oninactive calls window.close()).               *)
(***************************************************************************)
PageClose ==
    /\ page # "closed"
    /\ page' = "closed"
    /\ UNCHANGED <<optLanguage, readyState, closePending, isServerReady, language,
                   outbound, toTab, toRuntime, statusCount, pendingWait, nIn,
                   nBlocks, heard>>
    /\ UNCHANGED <<bgVars, rendVars, lineVars, resVars>>

(***************************************************************************)
(* startRecord up to the installation of its handlers.                     *)
(***************************************************************************)
\* await captureTabAudio(): a stream, no stream (captureTabAudio throws its
\* own error), or chrome.tabCapture.capture throws
CaptureOutcomes == {"stream", "noStream", "throws"}

\* variant: the failure is reported and the socket is opened all the same
OnCaptureFailureConnects ==
    /\ page' = "alive"
    /\ readyState' = "CONNECTING"
    /\ statusCount' = Bump("capture")
    /\ toRuntime' = Append(toRuntime, [action |-> "toggleCaptureButtons"])

\* captureTabAudio's catch reports and rethrows; startRecord's catch reports
\* and sends toggleCaptureButtons; nothing after the await has run
OnCaptureFailure ==
    /\ page' = "failed"
    /\ statusCount' = Bump("capture")
    /\ toRuntime' = Append(toRuntime, [action |-> "toggleCaptureButtons"])
    /\ UNCHANGED readyState

\* the stream arrived: new WebSocket(...), handlers and processor installed
OnCaptureStream ==
    /\ page' = "alive"
    /\ readyState' = "CONNECTING"
    /\ UNCHANGED <<statusCount, toRuntime>>

CaptureDone(outcome) ==
    /\ page = "starting"
    /\ IF outcome = "stream" THEN OnCaptureStream ELSE OnCaptureFailure
    /\ UNCHANGED <<optLanguage, closePending, isServerReady, language, outbound,
                   toTab, pendingWait, nIn, nBlocks, heard>>
    /\ UNCHANGED <<bgVars, rendVars, lineVars, resVars>>

\* the options page has received start_capture and called startRecord(data)
SessInit ==
    /\ page = "starting"
    /\ optLanguage \in {OptionsLanguage(o, s) :
                          o \in {"popup", "command"}, s \in StoredLanguages}
    /\ language = optLanguage
    /\ readyState = "NONE"
    /\ closePending = FALSE
    /\ isServerReady = FALSE
    /\ outbound = <<>>
    /\ toTab = <<>>
    /\ toRuntime = <<>>
    /\ statusCount = [k \in StatusKinds |-> 0]
    /\ pendingWait = 0
    /\ nIn = 0
    /\ nBlocks = 0
    /\ heard = {}

(***************************************************************************)
(* Background script: startCapture and stopCapture.  Each call runs from   *)
(* one await to the next as one step; a suspended call is a record of the  *)
(* bag calls: fn (the function), via (who called it), pc (the await it is  *)
(* suspended at), tab (startCapture's local optionTab.id).                 *)
(***************************************************************************)
\* the tab being captured (options.tabId), the only content tab of the model
ContentTab == "tab"

\* optionTabId: null; tab ids are positive and every test of an option tab
\* id is a truthiness test
NoTab == 0

Call(fn, via, pc, tab) == [fn |-> fn, via |-> via, pc |-> pc, tab |-> tab]

Suspend(c) == calls (+) SetToBag({c})

Resume(c) == calls (-) SetToBag({c})

\* the calls of startCapture, or of stopCapture, that are suspended at an await
InFlight(fn) == {c \in BagToSet(calls) : c.fn = fn}

\* the suspended stopCapture calls that the message listener made (for a
\* "stopCapture" or a "toggleCaptureButtons" message)
StopsByMessage == {c \in InFlight("stop") : c.via = "message"}

\* two stopCapture calls made by the message listener are suspended at the
\* same time
TwoStopsOverlap ==
    \/ Cardinality(StopsByMessage) >= 2
    \/ \E c \in StopsByMessage : CopiesIn(c, calls) >= 2

\* two such calls overlap while no startCapture call is in progress, no
\* further stop and exactly one further start can be requested: a tab created
\* from now on is created by a later start, and only these two calls can
\* remove it
OverlapNow ==
    /\ TwoStopsOverlap
    /\ InFlight("start") = {}
    /\ nStops = MaxStops
    /\ nStarts = MaxStarts - 1

NoOverlap == [seen |-> FALSE, o |-> NoTab, n |-> 0]

\* history only: the first time OverlapNow holds, the option tab the state
\* names and the number of tabs created so far are noted
Observed ==
    overlap' = IF ~overlap.seen /\ OverlapNow'
               THEN [seen |-> TRUE, o |-> state'.optionTabId, n |-> nTabs']
               ELSE overlap

\* chrome.tabs.remove(tabId): the tab and its page are gone
TabsAfterRemove(t) == liveTabs \ {t}

\* a fresh id for chrome.tabs.create
NewTabId == nTabs + 1

\* handleCommand's chrome.storage.local.set after "await startCapture(...)"
StoredAfterStart(via) == IF via = "command" THEN TRUE ELSE capturingState

\* handleCommand's chrome.storage.local.set after "await stopCapture()"
StoredAfterStop(via) == IF via = "command" THEN FALSE ELSE capturingState

\* startCapture from its first line to its first await, called for `via`;
\* `rest` is the bag of the other suspended calls
EnterStartCapture(via, rest) ==
    IF state.optionTabId # NoTab
    THEN \* await removeChromeTab(state.optionTabId)
         /\ removeReqs' = removeReqs + 1
         /\ liveTabs' = TabsAfterRemove(state.optionTabId)
         /\ recording' = recording \ {state.optionTabId}
         /\ calls' = rest (+) SetToBag({Call("start", via, "remove", NoTab)})
    ELSE \* await getTab(tabId)
         /\ calls' = rest (+) SetToBag({Call("start", via, "getTab", NoTab)})
         /\ UNCHANGED <<removeReqs, liveTabs, recording>>

\* what the popup stores when its startCapture message has been answered:
\* chrome.storage.local.set({ capturingState: { isCapturing: true } })
StoredByPopup == TRUE

\* chrome.runtime.onMessage: message.action === "startCapture", sent by the
\* popup; the listener answers at once (sendResponse({})) and the popup's
\* callback stores the capturing state
StartMessage ==
    /\ nStarts < MaxStarts
    /\ nStarts' = nStarts + 1
    /\ EnterStartCapture("message", calls)
    /\ capturingState' = StoredByPopup
    /\ UNCHANGED <<state, stopSent, nTabs, nStops>>
    /\ UNCHANGED <<sessVars, rendVars, lineVars, resVars>>
    /\ Observed

\* handleCommand("start-transcription"): up to await chrome.storage.local.get
StartCommand ==
    /\ nStarts < MaxStarts
    /\ ~state.isCapturing
    /\ nStarts' = nStarts + 1
    /\ calls' = Suspend(Call("start", "command", "settings", NoTab))
    /\ UNCHANGED <<state, liveTabs, recording, capturingState, stopSent,
                   removeReqs, nTabs, nStops>>
    /\ UNCHANGED <<sessVars, rendVars, lineVars, resVars>>
    /\ Observed

\* handleCommand after the settings and the active tab have arrived
StartSettings(activeTab) ==
    LET c == Call("start", "command", "settings", NoTab) IN
    /\ BagIn(c, calls)
    /\ IF activeTab
       THEN EnterStartCapture("command", Resume(c))
       ELSE /\ calls' = Resume(c)
            /\ UNCHANGED <<removeReqs, liveTabs, recording>>
    /\ UNCHANGED <<state, capturingState, stopSent, nTabs, nStarts, nStops>>
    /\ UNCHANGED <<sessVars, rendVars, lineVars, resVars>>
    /\ Observed

\* startCapture after await removeChromeTab: state.optionTabId = null, getTab
StartRemoved(via) ==
    LET c == Call("start", via, "remove", NoTab) IN
    /\ BagIn(c, calls)
    /\ state' = [state EXCEPT !.optionTabId = NoTab]
    /\ calls' = Resume(c) (+) SetToBag({Call("start", via, "getTab", NoTab)})
    /\ UNCHANGED <<liveTabs, recording, capturingState, stopSent, removeReqs,
                   nTabs, nStarts, nStops>>
    /\ UNCHANGED <<sessVars, rendVars, lineVars, resVars>>
    /\ Observed

\* startCapture after await getTab: the tab is gone (getTab throws), silent
\* (return) or audible (executeScript, delay)
StartGotTab(via, outcome) ==
    LET c == Call("start", via, "getTab", NoTab) IN
    /\ BagIn(c, calls)
    /\ CASE outcome = "throws" ->
              /\ state' = [state EXCEPT !.isCapturing = FALSE]
              /\ calls' = Resume(c)
              /\ capturingState' = StoredAfterStart(via)
         [] outcome = "silent" ->
              /\ calls' = Resume(c)
              /\ capturingState' = StoredAfterStart(via)
              /\ UNCHANGED state
         [] outcome = "audible" ->
              /\ state' = [state EXCEPT !.currentTabId = ContentTab]
              /\ calls' = Resume(c) (+)
                            SetToBag({Call("start", via, "inject", NoTab)})
              /\ UNCHANGED capturingState
    /\ UNCHANGED <<liveTabs, recording, stopSent, removeReqs, nTabs, nStarts, nStops>>
    /\ UNCHANGED <<sessVars, rendVars, lineVars, resVars>>
    /\ Observed

\* startCapture after await executeScriptInTab and await delay(500): the
\* injection failed (catch), or chrome.tabs.create is called and the browser
\* opens the options tab, or cannot
StartInjected(via, outcome) ==
    LET c == Call("start", via, "inject", NoTab) IN
    /\ BagIn(c, calls)
    /\ CASE outcome = "injectFails" ->
              /\ state' = [state EXCEPT !.isCapturing = FALSE]
              /\ calls' = Resume(c)
              /\ capturingState' = StoredAfterStart(via)
              /\ UNCHANGED <<liveTabs, nTabs>>
         [] outcome = "createFails" ->
              /\ calls' = Resume(c) (+)
                            SetToBag({Call("start", via, "creating", NoTab)})
              /\ UNCHANGED <<state, capturingState, liveTabs, nTabs>>
         [] outcome = "created" ->
              /\ liveTabs' = liveTabs \cup {NewTabId}
              /\ nTabs' = nTabs + 1
              /\ calls' = Resume(c) (+)
                            SetToBag({Call("start", via, "creating", NewTabId)})
              /\ UNCHANGED <<state, capturingState>>
    /\ UNCHANGED <<recording, stopSent, removeReqs, nStarts, nStops>>
    /\ UNCHANGED <<sessVars, rendVars, lineVars, resVars>>
    /\ Observed

\* startCapture after await openExtensionOptions: state.optionTabId =
\* optionTab.id, delay(500); or the catch when the tab could not be created
StartCreated(via, t) ==
    LET c == Call("start", via, "creating", t) IN
    /\ BagIn(c, calls)
    /\ IF t = NoTab
       THEN /\ state' = [state EXCEPT !.isCapturing = FALSE]
            /\ calls' = Resume(c)
            /\ capturingState' = StoredAfterStart(via)
       ELSE /\ state' = [state EXCEPT !.optionTabId = t]
            /\ calls' = Resume(c) (+)
                          SetToBag({Call("start", via, "delay", t)})
            /\ UNCHANGED capturingState
    /\ UNCHANGED <<liveTabs, recording, stopSent, removeReqs, nTabs, nStarts, nStops>>
    /\ UNCHANGED <<sessVars, rendVars, lineVars, resVars>>
    /\ Observed

\* startCapture after the second delay: sendMessageToTab(optionTab.id,
\* start_capture); the options page, if it still exists, runs startRecord
StartDelayed(via, t) ==
    LET c == Call("start", via, "delay", t) IN
    /\ BagIn(c, calls)
    /\ recording' = IF t \in liveTabs THEN recording \cup {t} ELSE recording
    /\ calls' = Resume(c) (+) SetToBag({Call("start", via, "send", t)})
    /\ UNCHANGED <<state, liveTabs, capturingState, stopSent, removeReqs,
                   nTabs, nStarts, nStops>>
    /\ UNCHANGED <<sessVars, rendVars, lineVars, resVars>>
    /\ Observed

\* startCapture after await sendMessageToTab: state.isCapturing = true
StartSent(via, t) ==
    LET c == Call("start", via, "send", t) IN
    /\ BagIn(c, calls)
    /\ state' = [state EXCEPT !.isCapturing = TRUE]
    /\ calls' = Resume(c)
    /\ capturingState' = StoredAfterStart(via)
    /\ UNCHANGED <<liveTabs, recording, stopSent, removeReqs, nTabs, nStarts, nStops>>
    /\ UNCHANGED <<sessVars, rendVars, lineVars, resVars>>
    /\ Observed

\* stopCapture when state.optionTabId is unset: only the flag is reset
StopNothingHeld(via) ==
    /\ state' = [state EXCEPT !.isCapturing = FALSE]
    /\ capturingState' =
          IF via = "toggle" THEN FALSE ELSE StoredAfterStop(via)
    /\ UNCHANGED <<calls, liveTabs, recording, stopSent, removeReqs>>

\* who awaits the stopCapture call: handleCommand, or the message listener
\* (for "stopCapture" and for "toggleCaptureButtons" alike)
Awaiter(via) == IF via = "command" THEN "command" ELSE "message"

\* stopCapture from its first line to its first await, called for `via`
EnterStopCapture(via) ==
    IF state.optionTabId = NoTab
    THEN StopNothingHeld(via)
    ELSE /\ capturingState' = IF via = "toggle" THEN FALSE ELSE capturingState
         /\ IF state.currentTabId # Null
            THEN \* await sendMessageToTab(state.currentTabId, STOP)
                 /\ stopSent' = stopSent + 1
                 /\ calls' = Suspend(Call("stop", Awaiter(via), "stopMsg", NoTab))
                 /\ UNCHANGED <<state, liveTabs, recording, removeReqs>>
            ELSE \* await removeChromeTab(state.optionTabId)
                 /\ removeReqs' = removeReqs + 1
                 /\ liveTabs' = TabsAfterRemove(state.optionTabId)
                 /\ recording' = recording \ {state.optionTabId}
                 /\ calls' = Suspend(Call("stop", Awaiter(via), "remove", NoTab))
                 /\ UNCHANGED <<state, stopSent>>

\* chrome.runtime.onMessage: "stopCapture", or "toggleCaptureButtons" (which
\* first stores capturingState false), or handleCommand("stop-transcription")
StopRequest(via) ==
    /\ nStops < MaxStops
    /\ via = "command" => state.isCapturing
    /\ nStops' = nStops + 1
    /\ EnterStopCapture(via)
    /\ UNCHANGED <<nTabs, nStarts>>
    /\ UNCHANGED <<sessVars, rendVars, lineVars, resVars>>
    /\ Observed

\* stopCapture after await sendMessageToTab(STOP): removeChromeTab of the
\* option tab the state names now
StopAfterMsg(via) ==
    LET c == Call("stop", via, "stopMsg", NoTab) IN
    /\ BagIn(c, calls)
    /\ IF state.optionTabId = NoTab
       THEN \* removeChromeTab returns at once; the call runs to its end
            /\ state' = [state EXCEPT !.isCapturing = FALSE]
            /\ calls' = Resume(c)
            /\ capturingState' = StoredAfterStop(via)
            /\ UNCHANGED <<liveTabs, recording, removeReqs>>
       ELSE /\ removeReqs' = removeReqs + 1
            /\ liveTabs' = TabsAfterRemove(state.optionTabId)
            /\ recording' = recording \ {state.optionTabId}
            /\ calls' = Resume(c) (+)
                          SetToBag({Call("stop", via, "remove", NoTab)})
            /\ UNCHANGED <<state, capturingState>>
    /\ UNCHANGED <<stopSent, nTabs, nStarts, nStops>>
    /\ UNCHANGED <<sessVars, rendVars, lineVars, resVars>>
    /\ Observed

\* stopCapture after await removeChromeTab: optionTabId = null, isCapturing
\* = false
StopRemoved(via) ==
    LET c == Call("stop", via, "remove", NoTab) IN
    /\ BagIn(c, calls)
    /\ state' = [state EXCEPT !.optionTabId = NoTab, !.isCapturing = FALSE]
    /\ calls' = Resume(c)
    /\ capturingState' = StoredAfterStop(via)
    /\ UNCHANGED <<liveTabs, recording, stopSent, removeReqs, nTabs, nStarts, nStops>>
    /\ UNCHANGED <<sessVars, rendVars, lineVars, resVars>>
    /\ Observed

BgInit ==
    /\ state = [currentTabId |-> Null, optionTabId |-> NoTab,
                isCapturing |-> FALSE]
    /\ calls = EmptyBag
    /\ liveTabs = {}
    /\ recording = {}
    /\ capturingState = FALSE
    /\ stopSent = 0
    /\ removeReqs = 0
    /\ nTabs = 0
    /\ nStarts = 0
    /\ nStops = 0
    /\ overlap = NoOverlap

\* who awaits a call: the message listener or handleCommand
StartVias == {"message", "command"}

\* what asks for a stop
StopVias == {"message", "toggle", "command"}

TabIds == 1..MaxStarts

BgNext ==
    \/ StartMessage
    \/ StartCommand
    \/ \E a \in BOOLEAN : StartSettings(a)
    \/ \E v \in StartVias : StartRemoved(v)
    \/ \E v \in StartVias, o \in {"throws", "silent", "audible"} :
          StartGotTab(v, o)
    \/ \E v \in StartVias, o \in {"injectFails", "createFails", "created"} :
          StartInjected(v, o)
    \/ \E v \in StartVias, t \in TabIds \cup {NoTab} : StartCreated(v, t)
    \/ \E v \in StartVias, t \in TabIds : StartDelayed(v, t)
    \/ \E v \in StartVias, t \in TabIds : StartSent(v, t)
    \/ \E v \in StopVias : StopRequest(v)
    \/ \E v \in StartVias : StopAfterMsg(v)
    \/ \E v \in StartVias : StopRemoved(v)

(***************************************************************************)
(* Content script: the transcription overlay.  A text is a sequence of     *)
(* characters; a measurement surface is the offsetHeight the hidden        *)
(* element reports after each word getLines appends to it.                 *)
(***************************************************************************)
\* number of lines shown: textSegments.slice(Math.max(0, length - 3))
W == 3

\* const lineHeight = parseInt(lineHeightStyle) || 24
DefaultLineHeight == 24

\* segment.text of the segments a transcript message carries: empty, a
\* line break alone, two words
SegTexts == {<<>>, <<"\n">>, <<"a", " ", "b">>}

\* message.segments of a transcript message: up to MaxSegs segments
AllBatches == UNION {[1..n -> SegTexts] : n \in 0..MaxSegs}

\* computed line-height of the hidden element
LineHeightStyles == {"normal", "0px", "20px"}

\* offsetHeight values of the hidden element: one to W rows of 24px
Heights == {DefaultLineHeight * k : k \in 1..W}

\* the height after each of n more words, starting from at least `low`
\* and never decreasing as the text grows
RECURSIVE Growing(_, _)
Growing(n, low) ==
    IF n = 0 THEN {<<>>}
    ELSE UNION {{<<v>> \o rest : rest \in Growing(n - 1, v)} :
                   v \in {x \in Heights : x >= low}}

\* measurement surfaces for a text of n words
Surfaces(n) == Growing(n, 0)

\* for (const segment of segments) if (segment.text) text += segment.text + ' '
RECURSIVE BatchText(_)
BatchText(segs) ==
    IF segs = <<>> THEN <<>>
    ELSE (IF Head(segs) # <<>> THEN Head(segs) \o <<" ">> ELSE <<>>)
            \o BatchText(Tail(segs))

\* the texts the messages carry, and one message for each of them (messages
\* with the same text are handled alike)
BatchTexts == {BatchText(segs) : segs \in AllBatches}

Batches ==
    {CHOOSE segs \in AllBatches : BatchText(segs) = t : t \in BatchTexts}

\* variant: the text is not trimmed
NotBlankUntrimmed(t) == t # <<>>

\* text.trim() is not empty
NotBlank(t) == \E i \in DOMAIN t : t[i] \notin {" ", "\n", "\r"}

\* text.replace(/(\r\n|\n|\r)/gm, " ")
RECURSIVE Clean(_)
Clean(t) ==
    IF t = <<>> THEN <<>>
    ELSE IF Len(t) >= 2 /\ t[1] = "\r" /\ t[2] = "\n"
         THEN <<" ">> \o Clean(SubSeq(t, 3, Len(t)))
    ELSE IF t[1] \in {"\n", "\r"} THEN <<" ">> \o Clean(Tail(t))
    ELSE <<t[1]>> \o Clean(Tail(t))

\* the value parseInt gives for a string that starts with no digit
NaN == -1

\* parseInt(lineHeightStyle)
ParseInt(style) ==
    CASE style = "20px" -> 20
      [] style = "24px" -> 24
      [] style = "0px" -> 0
      [] OTHER -> NaN

\* parseInt(lineHeightStyle) || 24: NaN and 0 are falsy
ParseLineHeight(style) ==
    IF ParseInt(style) \in {NaN, 0} THEN DefaultLineHeight
    ELSE ParseInt(style)

\* originalText.split(' ')
RECURSIVE Split(_)
Split(t) ==
    IF \A i \in DOMAIN t : t[i] # " " THEN <<t>>
    ELSE LET k == CHOOSE i \in DOMAIN t :
                      t[i] = " " /\ \A j \in 1..(i - 1) : t[j] # " "
         IN  <<SubSeq(t, 1, k - 1)>> \o Split(SubSeq(t, k + 1, Len(t)))

Clamp(x, n) == IF x < 0 THEN 0 ELSE IF x > n THEN n ELSE x

\* String.prototype.substring(a, b): both indices clamped to the string,
\* swapped when a > b
Substring(str, a, b) ==
    LET x == Clamp(a, Len(str))
        y == Clamp(b, Len(str))
    IN  IF x <= y THEN SubSeq(str, x + 1, y) ELSE SubSeq(str, y + 1, x)

\* (element.offsetHeight / lineHeight) > currentLines; every comparison
\* with NaN is false, a positive height divided by 0 is Infinity
Exceeds(height, lineHeight, currentLines) ==
    CASE lineHeight = NaN -> FALSE
      [] lineHeight = 0 -> height > 0
      [] OTHER -> height > currentLines * lineHeight

\* getLines: one iteration of the for loop for words[i], then the rest
RECURSIVE LinesLoop(_, _, _, _, _)
LinesLoop(words, h, lineHeight, i, acc) ==
    IF i > Len(words) THEN acc
    ELSE LET segment == acc.segment \o words[i] \o <<" ">>
             lineSegment ==
                 Substring(segment, acc.segmentLen,
                           Len(segment) - 1 - Len(words[i]) - 1)
         IN  LinesLoop(words, h, lineHeight, i + 1,
                 IF Exceeds(h[i], lineHeight, acc.currentLines)
                 THEN [segment      |-> segment,
                       segmentLen   |-> acc.segmentLen + Len(lineSegment) + 1,
                       currentLines |-> acc.currentLines + 1,
                       segments     |-> Append(acc.segments, lineSegment)]
                 ELSE [acc EXCEPT !.segment = segment])

\* getLines(element, lineHeight) for element.innerHTML = text on surface h
GetLines(text, h, lineHeight) ==
    LET acc == LinesLoop(Split(text), h, lineHeight, 1,
                   [segment |-> <<>>, segmentLen |-> 0, currentLines |-> 1,
                    segments |-> <<>>])
    IN  Append(acc.segments,
               Substring(acc.segment, acc.segmentLen, Len(acc.segment) - 1))

\* variant: every line is kept for display
SegmentsToShowAll(segs) == segs

\* textSegments.slice(Math.max(0, textSegments.length - 3))
SegmentsToShow(segs) ==
    SubSeq(segs, (IF Len(segs) - W > 0 THEN Len(segs) - W ELSE 0) + 1, Len(segs))

\* variant: the text elements are filled in the opposite order
TextElementsReversed(segs) ==
    [index \in 1..3 |->
        IF index <= Len(segs) THEN segs[Len(segs) + 1 - index] ELSE <<>>]

\* the text elements t0, t1, t2 cleared, then segmentsToShow.forEach(
\* (segment, index) => if (textElements[index]) ... innerHTML = segment)
TextElements(segs) ==
    [index \in 1..3 |-> IF index <= Len(segs) THEN segs[index] ELSE <<>>]

\* no top assigned: the style.top of a new element
NoTop == -1
NoTops == [index \in 1..3 |-> NoTop]

\* offsetHeight of a text element: nothing for an empty one, one row for a
\* line
OffsetHeight(html) == IF html = <<>> THEN 0 ELSE DefaultLineHeight

\* offsetTop of a text element: the top the script gave it, the top of the
\* content otherwise
OffsetTop(top) == IF top = NoTop THEN 0 ELSE top

\* for (let i = 1; i < 3; i++) if (... && prevElement.innerHTML)
\*     currentElement.style.top = prevElement.offsetHeight
\*                                + prevElement.offsetTop + 'px'
Positioned(els, base) ==
    LET top1 == IF els[1] # <<>>
                THEN OffsetHeight(els[1]) + OffsetTop(base[1])
                ELSE base[2]
        top2 == IF els[2] # <<>>
                THEN OffsetHeight(els[2]) + OffsetTop(top1)
                ELSE base[3]
    IN  <<base[1], top1, top2>>

\* updateTranscription(text), measured on surface h with the given style
UpdateTranscription(text, h, style) ==
    /\ transcriptionContainer' = "overlay"
    /\ measured' = Clean(text)
    /\ textSegments' = GetLines(Clean(text), h, ParseLineHeight(style))
    /\ shown' = TextElements(SegmentsToShow(textSegments'))
    /\ tops' = Positioned(shown',
                   IF transcriptionContainer = Null THEN NoTops ELSE tops)

\* listener, type "transcript": the text of the batch, updateTranscription
\* if it is not blank
OnTranscript(segs) ==
    /\ LET text == BatchText(segs) IN
         IF NotBlank(text)
         THEN \E h \in Surfaces(Len(Split(Clean(text)))),
                 style \in LineHeightStyles :
                    UpdateTranscription(text, h, style)
         ELSE UNCHANGED rendVars
    /\ UNCHANGED <<sessVars, bgVars, lineVars, resVars>>

\* variant: the variable is reset, the element stays in the document
OnStopKeepsElement ==
    /\ transcriptionContainer' = Null
    /\ UNCHANGED <<textSegments, shown, measured, tops>>
    /\ UNCHANGED <<sessVars, bgVars, lineVars, resVars>>

\* listener, type "STOP": removeTranscriptionElement()
OnStop ==
    /\ transcriptionContainer' = Null
    /\ shown' = <<>>
    /\ tops' = NoTops
    /\ UNCHANGED <<textSegments, measured>>
    /\ UNCHANGED <<sessVars, bgVars, lineVars, resVars>>

\* the transcript messages with the surface and the line-height the page
\* presents when they are handled
Deliveries ==
    UNION {{[segments |-> segs, heights |-> h, style |-> style,
             handled |-> FALSE] :
               h \in Surfaces(Len(Split(Clean(BatchText(segs))))),
               style \in LineHeightStyles} : segs \in Batches}

\* listener, type "transcript", for the message on its way
OnIncoming ==
    /\ ~incoming.handled
    /\ LET text == BatchText(incoming.segments) IN
         IF NotBlank(text)
         THEN UpdateTranscription(text, incoming.heights, incoming.style)
         ELSE UNCHANGED rendVars
    /\ incoming' = [incoming EXCEPT !.handled = TRUE]
    /\ UNCHANGED <<sessVars, bgVars, resVars>>

UpdateNext == OnIncoming \/ OnStop

\* the content script as injected
RendInit ==
    /\ transcriptionContainer = Null
    /\ textSegments = <<>>
    /\ shown = <<>>
    /\ measured = <<>>
    /\ tops = NoTops

RenderNext ==
    \/ \E segs \in Batches : OnTranscript(segs)
    \/ OnStop

(***************************************************************************)
(* Options page: resampleTo16kHZ.  Samples are rationals, the arithmetic   *)
(* is exact.                                                                *)
(***************************************************************************)
\* const targetSampleRate = 16000
TargetSampleRate == 16000

\* audioContext.sampleRate (44100 is the default of the parameter)
SampleRates == {8000, 16000, 32000, 44100, 48000}

\* sample values
Pcm == {-1, 0, 2}

\* the arrays passed in, the empty one included
SampleArrays == UNION {[1..n -> Pcm] : n \in 0..MaxSamples}

RECURSIVE Gcd(_, _)
Gcd(a, b) == IF b = 0 THEN a ELSE Gcd(b, a % b)

\* the number num / den (den > 0) in lowest terms
Rat(num, den) ==
    LET g == Gcd(Abs(num), den)
    IN  [num |-> num \div g, den |-> den \div g]

\* variant: the length is rounded down
TargetLengthFloor(len, rate) == (len * TargetSampleRate) \div rate

\* Math.round(data.length * (targetSampleRate / origSampleRate)):
\* Math.round(x) is floor(x + 1/2)
TargetLength(len, rate) == (2 * len * TargetSampleRate + rate) \div (2 * rate)

\* variant: springFactor = (len - 1) / target
InterpolatedShort(data, target, i) ==
    LET len == Len(data)
        leftIndex == (i * (len - 1)) \div target
        rest == (i * (len - 1)) % target
        rightIndex == IF rest = 0 THEN leftIndex ELSE leftIndex + 1
    IN  Rat(data[leftIndex + 1] * target
              + (data[rightIndex + 1] - data[leftIndex + 1]) * rest,
            target)

\* the sample an arithmetic on a missing element (undefined) leaves
NaNSample == [num |-> 0, den |-> 0]

\* no quotient evaluated
NoFactor == [num |-> 0, den |-> 1]

\* variant: springFactor = len / (target - 1)
SpringFactorLong(len, target) == [num |-> len, den |-> target - 1]

\* const springFactor = (data.length - 1) / (targetLength - 1): dividend and
\* divisor of the division, which is evaluated for every length
SpringFactor(len, target) == [num |-> len - 1, den |-> target - 1]

\* Math.floor(i * springFactor), for a positive divisor
LeftIndex(len, target, i) ==
    (i * SpringFactor(len, target).num) \div SpringFactor(len, target).den

\* Math.ceil(i * springFactor), for a positive divisor
RightIndex(len, target, i) ==
    IF (i * SpringFactor(len, target).num) % SpringFactor(len, target).den = 0
    THEN LeftIndex(len, target, i)
    ELSE LeftIndex(len, target, i) + 1

\* one iteration of the loop: resampledData[i] for 0 < i < targetLength - 1,
\* index = i * springFactor; an element read outside data is undefined and
\* makes the sample NaN
Interpolated(data, target, i) ==
    LET len == Len(data)
        den == SpringFactor(len, target).den
        rest == (i * SpringFactor(len, target).num) % den
        leftIndex == LeftIndex(len, target, i)
        rightIndex == RightIndex(len, target, i)
    IN  IF {leftIndex, rightIndex} \subseteq 0..(len - 1)
        THEN Rat(data[leftIndex + 1] * den
                   + (data[rightIndex + 1] - data[leftIndex + 1]) * rest,
                 den)
        ELSE NaNSample

\* variant: the first sample is written after the last one
EndpointsFirstWins(data, target, i) ==
    IF i = 0 THEN Rat(data[1], 1) ELSE Rat(data[Len(data)], 1)

\* resampledData[0] = data[0]; resampledData[targetLength - 1] =
\* data[data.length - 1]: the second assignment is the later one
Endpoints(data, target, i) ==
    IF i = target - 1 THEN Rat(data[Len(data)], 1) ELSE Rat(data[1], 1)

\* resampleTo16kHZ(audioData, origSampleRate): the array returned (element
\* i of the program is element i + 1 here)
Resampled(data, rate) ==
    LET target == TargetLength(Len(data), rate)
    IN  [k \in 1..target |->
            IF k - 1 \in 1..(target - 2)
            THEN Interpolated(data, target, k - 1)
            ELSE Endpoints(data, target, k - 1)]

\* one call returns
ResampleTo16kHZ ==
    /\ ~returned
    /\ springFactor' = SpringFactor(Len(audioData),
                           TargetLength(Len(audioData), origSampleRate))
    /\ resampledData' = Resampled(audioData, origSampleRate)
    /\ returned' = TRUE
    /\ UNCHANGED <<audioData, origSampleRate>>
    /\ UNCHANGED <<sessVars, bgVars, rendVars, lineVars>>

ResampleNext == ResampleTo16kHZ

\* no streaming session: the state of the options-page variables while only
\* the other scripts are observed
NoSession ==
    /\ page = "closed"
    /\ optLanguage = Null
    /\ language = Null
    /\ readyState = "CLOSED"
    /\ closePending = FALSE
    /\ isServerReady = FALSE
    /\ outbound = <<>>
    /\ toTab = <<>>
    /\ toRuntime = <<>>
    /\ statusCount = [k \in StatusKinds |-> 0]
    /\ pendingWait = 0
    /\ nIn = 0
    /\ nBlocks = 0
    /\ heard = {}

\* no message awaited by the single-update view, no resampler call observed
NoDelivery ==
    incoming = [segments |-> <<>>, heights |-> <<>>, style |-> "normal",
                handled |-> TRUE]

NoResample ==
    /\ audioData = <<>>
    /\ origSampleRate = TargetSampleRate
    /\ resampledData = <<>>
    /\ springFactor = NoFactor
    /\ returned = TRUE

Init == SessInit /\ BgInit /\ RendInit /\ NoDelivery /\ NoResample

InitBg == NoSession /\ BgInit /\ RendInit /\ NoDelivery /\ NoResample

InitRender == NoSession /\ BgInit /\ RendInit /\ NoDelivery /\ NoResample

\* one transcript message for a new content script, with the surface the
\* hidden element presents for its words and the computed line-height
InitUpdate ==
    /\ NoSession /\ BgInit /\ RendInit /\ NoResample
    /\ incoming \in Deliveries

\* one call of the resampler
InitResample ==
    /\ NoSession /\ BgInit /\ RendInit /\ NoDelivery
    /\ audioData \in SampleArrays
    /\ origSampleRate \in SampleRates
    /\ resampledData = <<>>
    /\ springFactor = NoFactor
    /\ returned = FALSE

Next ==
    \/ \E o \in CaptureOutcomes : CaptureDone(o)
    \/ SocketOpen
    \/ \E m \in InboundFrames : OnMessage(m)
    \/ WaitResume
    \/ \E b \in AudioBlocks : OnAudioProcess(b)
    \/ SocketError
    \/ SocketClose
    \/ PageClose

Spec == Init /\ [][Next]_vars

SpecBg == InitBg /\ [][BgNext]_vars

SpecRender == InitRender /\ [][RenderNext]_vars

SpecUpdate == InitUpdate /\ [][UpdateNext]_vars

SpecResample == InitResample /\ [][ResampleNext]_vars

(***************************************************************************)
(* Properties of the streaming session (checked under Spec).               *)
(***************************************************************************)
\* indices of the frames the current step hands to socket.send()
SentNow == {i \in DOMAIN outbound' : i > Len(outbound)}

AudioSentNow == {i \in SentNow : outbound'[i].type = "audio"}

\* a block with a sample above the silence threshold, by its samples
Loud(b) == \E i \in DOMAIN b : b[i] > 10 \/ b[i] < -10

RuntimeCount(a) ==
    Cardinality({i \in DOMAIN toRuntime : toRuntime[i].action = a})

TabCount(t) == Cardinality({i \in DOMAIN toTab : toTab[i].type = t})

\* C1: no audio frame is on the socket unless a SERVER_READY addressed to
\* this client has been handled; a frame is sent only in a step taken while
\* the server is ready, and it is the block captured in that very step (a
\* block dropped earlier is never sent later).
C1_NoAudioBeforeReady ==
    /\ [](AudioFramesOf(outbound) # {} => "SERVER_READY" \in heard)
    /\ [][\A i \in AudioSentNow :
            /\ isServerReady
            /\ "SERVER_READY" \in heard
            /\ nBlocks' = nBlocks + 1
            /\ outbound'[i].block = nBlocks']_vars

\* C1 witness: both blocks captured, the server became ready in between,
\* only the second block is on the socket
C1_Witness ==
    /\ nBlocks = 2
    /\ isServerReady
    /\ Len(outbound) = 2
    /\ outbound[2] = AudioFrame(2)

\* C2 (as claimed): once a WAIT addressed to this client has been handled, no
\* step puts an audio frame on the socket.
C2_NoAudioAfterWait == [][("WAIT" \in heard) => AudioSentNow = {}]_vars

\* C3 (as claimed): a session emits at most one server-busy event, however
\* many WAIT frames it receives.
C3_OneBusyEvent ==
    /\ statusCount["busy"] <= 1
    /\ TabCount("showWaitPopup") <= 1

\* C4 (as claimed): in a session started without a configured language
\* (popup: null, keyboard shortcut: nothing stored), while the language is
\* still unresolved a frame addressed to this client that carries nothing
\* but a language resolves it to that value.
C4_FirstLanguageResolves ==
    [][\A m \in ParsedMsgs :
          (/\ optLanguage \in {Null, Undefined}
           /\ language = optLanguage
           /\ m.uid = "me" /\ m.status = Absent /\ m.message = "2 minutes"
           /\ m.language # Absent
           /\ OnMessage(m))
          => /\ language' = m.language
             /\ RuntimeCount("updateSelectedLanguage")' = 1]_vars

\* C5: handling a frame whose uid is not this session's changes neither the
\* readiness flag nor the resolved language, sends nothing to the renderer,
\* to the background or on the socket, and suspends no handler, whatever
\* other fields the frame carries.
C5_ForeignFrameIgnored ==
    [][\A m \in ParsedMsgs :
          (m.uid # "me" /\ OnMessage(m))
          => UNCHANGED <<isServerReady, language, toTab, toRuntime, outbound,
                         pendingWait, readyState>>]_vars

\* C5 witness: a foreign frame was handled by a ready session with a resolved
\* language and nothing reached the renderer or the background
C5_Witness ==
    /\ statusCount["foreign"] >= 1
    /\ isServerReady
    /\ toTab = <<>>
    /\ toRuntime = <<>>

\* C6 (as claimed): once the session is ready, a further SERVER_READY
\* addressed to this client changes no session state and emits nothing.
C6_LaterServerReadyIgnored ==
    [][\A m \in ParsedMsgs :
          (/\ isServerReady
           /\ m.uid = "me" /\ m.status = Absent /\ m.message = "SERVER_READY"
           /\ OnMessage(m))
          => UNCHANGED <<isServerReady, language, toTab, toRuntime, outbound,
                         pendingWait, statusCount>>]_vars

\* C7 (as claimed): once the server-initiated-disconnect event has been
\* emitted, no audio frame is sent and inbound frames change no state.
C7_ClosedAfterDisconnect ==
    [][(statusCount["disconnect"] >= 1)
          => /\ AudioSentNow = {}
             /\ UNCHANGED <<isServerReady, language, toTab>>]_vars

\* C8: the configuration is sent exactly in the step that opens the socket,
\* never again, and it is the first thing on the socket: everything after
\* it is an audio frame.
C8_ConfigOnceAndFirst ==
    /\ [](/\ readyState = "OPEN" => outbound # <<>>
          /\ outbound # <<>> =>
               /\ outbound[1].type = "config"
               /\ outbound[1].uid = "me"
               /\ \A i \in 2..Len(outbound) : outbound[i].type = "audio")
    /\ [][(\E i \in SentNow : outbound'[i].type = "config")
            <=> (readyState = "CONNECTING" /\ readyState' = "OPEN")]_vars

\* C8 witness: the configuration followed by an audio frame
C8_Witness ==
    /\ Len(outbound) >= 2
    /\ outbound[1].type = "config"
    /\ outbound[2].type = "audio"

TransportEvents == statusCount["error"] + statusCount["closed"]

\* C12 (as claimed): the transport events of a session (error, close, or
\* error followed by close) send one stop notification in all: the first
\* event handled sends it, a later one sends nothing.
C12_OneTerminalStop ==
    [][TransportEvents' > TransportEvents
          => Len(toRuntime') =
                Len(toRuntime) + (IF TransportEvents = 0 THEN 1 ELSE 0)]_vars

\* C13: handling a frame that JSON.parse rejects writes exactly one
\* diagnostic line and changes nothing else: readiness, resolved language,
\* socket and page stay as they are (so later frames and blocks are handled
\* as before), nothing is forwarded to the renderer, nothing is sent to the
\* background or on the socket, no handler is left suspended.
C13_MalformedFrameSwallowed ==
    [][OnMessage(Malformed)
          => /\ statusCount' = Bump("diagnostic")
             /\ UNCHANGED <<isServerReady, language, toTab, toRuntime, outbound,
                            pendingWait, readyState, closePending, page>>]_vars

\* C13 witness: one malformed frame and one SERVER_READY were handled, the
\* session is ready, a block went out and nothing was sent to the renderer
\* or the background
C13_Witness ==
    /\ statusCount["diagnostic"] = 1
    /\ nIn = 2
    /\ isServerReady
    /\ AudioFramesOf(outbound) # {}
    /\ toTab = <<>>
    /\ toRuntime = <<>>

\* C14: once a capture failure has been reported, no socket exists, nothing
\* was ever sent on one, to the renderer, and exactly one stop notification
\* was sent to the background; the step that handles the failure sends that
\* notification and nothing changes afterwards but the tab going away.
C14_CaptureFailureBeforeSocket ==
    /\ [](statusCount["capture"] >= 1
            => /\ readyState = "NONE"
               /\ outbound = <<>>
               /\ toTab = <<>>
               /\ toRuntime = <<[action |-> "toggleCaptureButtons"]>>
               /\ statusCount["capture"] = 1)
    /\ [][\A o \in CaptureOutcomes \ {"stream"} :
            CaptureDone(o)
            => toRuntime' = Append(toRuntime, [action |-> "toggleCaptureButtons"])]_vars

\* C14 witness: startRecord ended in its catch after the capture failed
C14_Witness ==
    /\ page = "failed"
    /\ statusCount["capture"] = 1
    /\ RuntimeCount("toggleCaptureButtons") = 1
    /\ readyState = "NONE"

\* C15: once the socket is closed (by a close, or by an error, in whatever
\* state of the session) no step puts anything on it, whatever blocks the
\* capture callbacks deliver; the step that handles the close event emits
\* the disconnect status, and a closed socket has emitted it unless the
\* close event that follows an error is still due.
C15_NoAudioAfterClose ==
    /\ [][readyState = "CLOSED" => outbound' = outbound]_vars
    /\ [][(readyState # "CLOSED" /\ readyState' = "CLOSED")
            => TransportEvents' = TransportEvents + 1]_vars
    /\ [](readyState = "CLOSED"
            => \/ closePending /\ statusCount["error"] = 1
               \/ statusCount["closed"] = 1)

\* C15 witness: a ready session sent its first block, the connection failed
\* (error, then close), and the second callback sent nothing
C15_Witness ==
    /\ readyState = "CLOSED"
    /\ statusCount["error"] = 1
    /\ statusCount["closed"] = 1
    /\ isServerReady
    /\ nBlocks = 2
    /\ outbound = <<ConfigMsg, AudioFrame(1)>>

\* C16 (as claimed): while the handling of a WAIT frame is under way (the
\* wait popup sent, toggleCaptureButtons and stopCapture not yet sent), no
\* other inbound frame, capture callback or socket event is handled.
C16_RunToCompletion ==
    [][pendingWait > 0
          => /\ nIn' = nIn
             /\ nBlocks' = nBlocks
             /\ TransportEvents' = TransportEvents]_vars

\* q is the beginning of r
IsPrefix(q, r) == Len(q) <= Len(r) /\ SubSeq(r, 1, Len(q)) = q

\* C17: what was handed to the renderer and what was put on the socket is
\* never reordered: every step leaves the earlier messages where they were;
\* the step that handles a frame taking the segments branch hands that very
\* frame over behind all earlier ones; the step that sends a block puts it
\* behind all earlier ones, so that the blocks on the socket are in capture
\* order.
C17_NoReordering ==
    /\ [][IsPrefix(toTab, toTab') /\ IsPrefix(outbound, outbound')]_vars
    /\ [][\A m \in ParsedMsgs :
            (OnMessage(m) /\ Branch(m) = "segments")
            => toTab' = Append(toTab, [type |-> "transcript", data |-> m])]_vars
    /\ [](\A i, j \in AudioFramesOf(outbound) :
            i < j => outbound[i].block < outbound[j].block)

\* C17 witness: two different transcript frames were handed to the renderer,
\* the one with a language field before the one without
C17_Witness ==
    /\ nIn = 2
    /\ Len(toTab) = 2
    /\ toTab[1].type = "transcript" /\ toTab[1].data.language = "en"
    /\ toTab[2].type = "transcript" /\ toTab[2].data.language = Absent

\* C18 (as claimed): handling a frame addressed to this client that carries
\* a segments list (here: no WAIT status, no SERVER_READY or DISCONNECT
\* literal, with or without a language field) hands that frame to the
\* renderer exactly once and changes neither the resolved language nor the
\* readiness flag.
C18_SegmentsForwarded ==
    [][\A m \in ParsedMsgs :
          (/\ m.uid = "me" /\ m.status = Absent /\ m.message = "2 minutes"
           /\ m.segments # Absent
           /\ OnMessage(m))
          => /\ toTab' = Append(toTab, [type |-> "transcript", data |-> m])
             /\ UNCHANGED <<language, isServerReady>>]_vars

DispatchKinds == {"busy", "ready", "language", "disconnect", "transcription"}

\* the dispatch branches that write their status line in the current step
RanNow == {k \in DispatchKinds : statusCount'[k] # statusCount[k]}

\* the first of WAIT, first SERVER_READY, language detection, DISCONNECT,
\* segments that the fields of frame m match, by the status line it writes
FirstMatch(m) ==
    IF m.status = "WAIT" THEN "busy"
    ELSE IF ~isServerReady /\ m.message = "SERVER_READY" THEN "ready"
    ELSE IF language = Null /\ m.language # Absent THEN "language"
    ELSE IF m.message = "DISCONNECT" THEN "disconnect"
    ELSE IF m.segments # Absent THEN "transcription"
    ELSE "nothing"

\* C33: the handling of a frame addressed to this client runs at most one
\* dispatch branch, the first the frame matches in the order WAIT, first
\* SERVER_READY, language detection (only while no language is resolved),
\* DISCONNECT, segments; nothing a later branch does happens in that step:
\* readiness, the resolved language, the renderer and the background are
\* touched by the branch taken only.
C33_OneBranchByPriority ==
    [][(nIn' = nIn + 1) =>
          \A m \in ParsedMsgs :
             (m.uid = "me" /\ OnMessage(m)) =>
                /\ RanNow = {FirstMatch(m)} \cap DispatchKinds
                /\ \A k \in RanNow : statusCount'[k] = statusCount[k] + 1
                /\ FirstMatch(m) # "ready" => isServerReady' = isServerReady
                /\ FirstMatch(m) # "language" => language' = language
                /\ FirstMatch(m) \notin {"busy", "transcription"} =>
                       toTab' = toTab
                /\ FirstMatch(m) = "busy" =>
                       toTab' = Append(toTab, [type |-> "showWaitPopup",
                                               data |-> m.message])
                /\ FirstMatch(m) = "transcription" =>
                       toTab' = Append(toTab, [type |-> "transcript",
                                               data |-> m])
                /\ FirstMatch(m) \notin {"language", "disconnect"} =>
                       toRuntime' = toRuntime
                /\ FirstMatch(m) = "disconnect" =>
                       toRuntime' = Append(toRuntime,
                                           [action |-> "toggleCaptureButtons"])]_vars

\* C33 witness: one frame that is a WAIT and carries the SERVER_READY literal
\* was handled to its end: the busy line was written, the session is not
\* ready
C33_Witness ==
    /\ nIn = 1
    /\ heard = {"WAIT", "SERVER_READY"}
    /\ statusCount["busy"] = 1
    /\ statusCount["ready"] = 0
    /\ ~isServerReady
    /\ pendingWait = 0
    /\ Len(toRuntime) = 2

(***************************************************************************)
(* Properties of the background script (checked under SpecBg).             *)
(***************************************************************************)
\* suspended calls of one function
Suspended(b, fn) ==
    BagCardinality([c \in {d \in BagToSet(b) : d.fn = fn} |-> b[c]])

\* the current step runs a stopCapture call to its end
StopEnds ==
    \/ Suspended(calls', "stop") < Suspended(calls, "stop")
    \/ nStops' = nStops + 1 /\ Suspended(calls', "stop") = Suspended(calls, "stop")

\* nothing is held: no call in progress, no option tab, not capturing
Stopped ==
    /\ calls = EmptyBag
    /\ state.optionTabId = NoTab
    /\ ~state.isCapturing
    /\ liveTabs = {}

\* C10 (as claimed): whenever a stopCapture call ends (whatever was going on
\* when it was called: nothing started, a start in progress, capturing,
\* already stopped) no options tab exists, none is recorded in the state and
\* isCapturing is false; and a stop requested when everything is already
\* stopped changes no state and sends neither STOP nor a tab removal.
C10_StopSafeAndIdempotent ==
    [][/\ StopEnds =>
            /\ state'.optionTabId = NoTab
            /\ ~state'.isCapturing
            /\ liveTabs' = {}
            /\ recording' = {}
       /\ (Stopped /\ nStops' = nStops + 1) =>
            UNCHANGED <<state, liveTabs, recording, stopSent, removeReqs,
                        calls>>]_vars

\* C32 (as claimed): whenever no startCapture or stopCapture call is in
\* progress, state.isCapturing is true only if state.optionTabId names a live
\* options tab.
C32_CapturingHasLiveTab ==
    (calls = EmptyBag /\ state.isCapturing) => state.optionTabId \in liveTabs

\* both calls have ended and no start was requested since: nothing is held
\* and the option tab o of the session is gone
EndedClean(o) ==
    (calls = EmptyBag /\ nStarts = MaxStarts - 1) =>
        /\ state.optionTabId = NoTab
        /\ ~state.isCapturing
        /\ o \notin liveTabs

\* every tab created after the first n is still there
LaterTabsKept(n) == \A t \in (n + 1)..nTabs : t \in liveTabs

\* C36, first half: two overlapping stopCapture calls end with optionTabId
\* null, isCapturing false and the session's options tab removed.
C36_BothEndClean == overlap.seen => EndedClean(overlap.o)

\* C36 (as claimed): two stopCapture calls that overlap at their awaits end
\* with optionTabId null, isCapturing false and the session's options tab
\* removed, and they never remove an options tab created by a later start
\* (a start requested after the two calls began to overlap).
C36_OverlappingStops ==
    overlap.seen => (EndedClean(overlap.o) /\ LaterTabsKept(overlap.n))

\* C35 (as claimed): when no stop was ever requested and no call is in
\* progress, the stored capturingState.isCapturing is true only if the
\* background did start a capture: a start request that failed has not left
\* it true.
C35_StoredOnlyIfStarted ==
    (calls = EmptyBag /\ nStops = 0 /\ capturingState) => state.isCapturing

(***************************************************************************)
(* Properties of the overlay (checked under SpecRender).                   *)
(***************************************************************************)
\* the text elements that show something
Displayed == {index \in DOMAIN shown : shown[index] # <<>>}

\* the lines joined with single spaces
RECURSIVE JoinLines(_)
JoinLines(segs) ==
    IF segs = <<>> THEN <<>>
    ELSE IF Len(segs) = 1 THEN segs[1]
    ELSE segs[1] \o <<" ">> \o JoinLines(Tail(segs))

\* C19: at every moment, after whatever transcript and STOP messages, at
\* most W = 3 lines are selected for display and at most 3 text elements
\* show something, however many lines the last partition has.
C19_WindowBound ==
    /\ Len(SegmentsToShow(textSegments)) <= 3
    /\ Cardinality(Displayed) <= 3
    /\ Len(shown) \in {0, 3}

\* C19 witness: the partition has four lines, three text elements show
\* something
C19_Witness ==
    /\ Len(textSegments) = 4
    /\ transcriptionContainer # Null
    /\ Cardinality(Displayed) = 3

\* C20 (as claimed): the lines getLines returned, joined with single
\* spaces, are the text it was given.
C20_LinesReconstructText ==
    textSegments # <<>> => JoinLines(textSegments) = measured

\* C21 (as claimed): the measured text accumulates: while the overlay lives
\* (no STOP in between), the text an update segments and windows begins with
\* the text the update before it segmented.
C21_TextAccumulates ==
    [][(transcriptionContainer # Null /\ transcriptionContainer' # Null)
          => IsPrefix(measured, measured')]_vars

\* the number of lines of the partition that are on display
NumShown == IF Len(textSegments) < 3 THEN Len(textSegments) ELSE 3

\* C22: while the overlay exists the text elements t0, t1, t2 hold, from top
\* to bottom and in the order of the partition, its last min(3, n) lines,
\* and the elements after them are empty.
C22_LastLinesInOrder ==
    transcriptionContainer # Null =>
        \A index \in 1..3 :
            shown[index] =
                IF index <= NumShown
                THEN textSegments[Len(textSegments) - NumShown + index]
                ELSE <<>>

\* C22 witness: a partition of two different lines is on display, the third
\* element is empty
C22_Witness ==
    /\ transcriptionContainer # Null
    /\ Len(textSegments) = 2
    /\ textSegments[1] # textSegments[2]
    /\ shown = <<textSegments[1], textSegments[2], <<>>>>

\* C23 (as claimed): while the overlay exists every displayed line after
\* the first has the top of the line above it plus that line's rendered
\* height, and the tops increase strictly from one displayed line to the
\* next.
C23_OffsetsStacked ==
    transcriptionContainer # Null =>
        \A index \in 2..NumShown :
            /\ tops[index] = OffsetTop(tops[index - 1])
                                + OffsetHeight(shown[index - 1])
            /\ OffsetTop(tops[index]) > OffsetTop(tops[index - 1])

\* no segment, or only segments whose text is empty or white space
BlankBatch(segs) ==
    \A index \in DOMAIN segs :
        \A c \in DOMAIN segs[index] : segs[index][c] \in {" ", "\n", "\r"}

\* C24: a transcript message with no segment, or whose segments' texts are
\* all empty or white space, changes nothing of the overlay: not its
\* existence, not the partition, not the text elements, not their tops.
C24_BlankBatchIgnored ==
    [][\A segs \in AllBatches :
          (BlankBatch(segs) /\ OnTranscript(segs))
              => UNCHANGED rendVars]_vars

\* C24 witness: an overlay with two lines on display and a top assigned,
\* where a message with a white-space segment is handled
C24_Witness ==
    /\ transcriptionContainer # Null
    /\ shown[1] # <<>> /\ shown[2] # <<>>
    /\ tops[2] # NoTop
    /\ \E segs \in Batches : segs # <<>> /\ BlankBatch(segs)
                                /\ BatchText(segs) # <<>>

\* q occurs in r as a run of consecutive characters
IsInfix(q, r) ==
    \E k \in 0..(Len(r) - Len(q)) : SubSeq(r, k + 1, k + Len(q)) = q

\* the cleaned text of a message that is not blank
ContentTexts ==
    {Clean(BatchText(segs)) : segs \in {b \in AllBatches : ~BlankBatch(b)}}

\* how the overlay comes and goes in one step: it is created only for the
\* non-blank text of one transcript message, and then every text element
\* shows a piece of that text and nothing older; a STOP removes it, and
\* with it every displayed line and assigned top
LifecycleStep ==
    /\ (transcriptionContainer = Null /\ transcriptionContainer' # Null)
          => (/\ measured' \in ContentTexts
              /\ \A index \in 1..3 : IsInfix(shown'[index], measured'))
    /\ OnStop => transcriptionContainer' = Null
    /\ (transcriptionContainer' = Null)
          => (shown' = <<>> /\ tops' = NoTops)

\* C25: the overlay does not exist at first; it is created only by the
\* first non-blank transcript content; a STOP removes it and whatever it
\* displayed; a transcript after the STOP creates it again showing only
\* text of that transcript.
C25_Lifecycle ==
    /\ transcriptionContainer = Null /\ shown = <<>>
    /\ [][LifecycleStep]_vars

\* C25 witness: a STOP has removed an overlay that had shown a partition
C25_Witness ==
    /\ transcriptionContainer = Null
    /\ textSegments # <<>>
    /\ shown = <<>>

(***************************************************************************)
(* Properties of one update (checked under SpecUpdate).                    *)
(***************************************************************************)
\* the message has been handled and its overlay is on the page
Updated ==
    /\ incoming.handled
    /\ ~BlankBatch(incoming.segments)
    /\ transcriptionContainer # Null

\* the hidden element stays one row high up to the last word
FitsOneLine ==
    \A i \in DOMAIN incoming.heights :
        incoming.heights[i] = DefaultLineHeight

\* C26 (as claimed): when the whole text of the message fits on one line
\* the partition is that one line, the segments' texts each followed by one
\* space; t0 shows it and t1, t2 are empty.
C26_OneLineShown ==
    (Updated /\ FitsOneLine) =>
        /\ textSegments = <<Clean(BatchText(incoming.segments))>>
        /\ shown = <<Clean(BatchText(incoming.segments)), <<>>, <<>>>>

\* the computed line-height is zero or does not start with a number
NoLineHeight == incoming.style \in {"0px", "normal"}

\* C27 (as claimed): when the line-height of the hidden element is zero or
\* cannot be parsed, the update completes with the partition getLines
\* gives for the line height 24, at most three lines are shown, and the
\* lines joined with single spaces are the text.
C27_DefaultLineHeight ==
    (Updated /\ NoLineHeight) =>
        /\ textSegments =
              GetLines(measured, incoming.heights, DefaultLineHeight)
        /\ Cardinality(Displayed) <= W
        /\ JoinLines(textSegments) = measured

(***************************************************************************)
(* Properties of resampleTo16kHZ (checked under SpecResample).             *)
(***************************************************************************)
\* n is len * 16000 / rate rounded to the nearest integer, a half upwards
IsRounded(n, len, rate) ==
    /\ 2 * rate * n - rate <= 2 * len * TargetSampleRate
    /\ 2 * len * TargetSampleRate < 2 * rate * n + rate

\* C28: for every array, the empty one included, and every rate the array
\* returned has round(len * 16000 / rate) elements.
C28_OutputLength ==
    returned =>
        IsRounded(Len(resampledData), Len(audioData), origSampleRate)

\* C28 witness: three samples at 32000 Hz, 1.5 rounded to two
C28_Witness ==
    /\ returned
    /\ origSampleRate = 32000
    /\ Len(audioData) = 3
    /\ Len(resampledData) = 2

\* C29 (as claimed): whenever the array passed in and the array returned
\* are not empty, the first sample returned is the first sample passed in
\* and the last returned is the last passed in, also when one sample is
\* returned.
C29_EndpointsCopied ==
    (returned /\ audioData # <<>> /\ resampledData # <<>>) =>
        /\ resampledData[1] = Rat(audioData[1], 1)
        /\ resampledData[Len(resampledData)]
              = Rat(audioData[Len(audioData)], 1)

\* C29 (amended): whenever the array passed in and the array returned are
\* not empty, the last sample returned is the last sample passed in, and the
\* first returned is the first passed in when at least two are returned.
C29_EndpointsCopiedFromTwo ==
    (returned /\ audioData # <<>> /\ resampledData # <<>>) =>
        /\ resampledData[Len(resampledData)]
              = Rat(audioData[Len(audioData)], 1)
        /\ Len(resampledData) >= 2
              => resampledData[1] = Rat(audioData[1], 1)

\* C29 witness: one sample returned for an array that begins and ends with
\* different samples
C29_Witness ==
    /\ returned
    /\ Len(resampledData) = 1
    /\ Len(audioData) >= 2
    /\ audioData[1] # audioData[Len(audioData)]

\* C30: at 16000 Hz the array returned has the length of the array passed
\* in and the same sample at every index.
C30_IdentityAt16000 ==
    (returned /\ origSampleRate = TargetSampleRate) =>
        /\ Len(resampledData) = Len(audioData)
        /\ \A i \in DOMAIN audioData :
              resampledData[i] = Rat(audioData[i], 1)

\* C30 witness: an array with an inner sample different from its neighbours
\* has been resampled at 16000 Hz
C30_Witness ==
    /\ returned
    /\ origSampleRate = TargetSampleRate
    /\ Len(audioData) >= 3
    /\ audioData[2] # audioData[1] /\ audioData[2] # audioData[3]

\* C31 (as claimed): an empty array gives an empty array, and when the
\* array returned has no or one element no division by zero has been
\* evaluated: the divisor targetLength - 1 of springFactor is not 0.
C31_DegenerateGuarded ==
    returned =>
        /\ audioData = <<>> => resampledData = <<>>
        /\ Len(resampledData) <= 1 => springFactor.den # 0

\* C37: when the arrays passed in and returned have two or more elements,
\* for every inner index i of the result the floor and the ceiling of
\* i * (len_in - 1) / (len_out - 1) are indices of the array passed in, and
\* no sample was computed from a missing element.
C37_IndicesInRange ==
    (returned /\ Len(audioData) >= 2 /\ Len(resampledData) >= 2) =>
        \A i \in 1..(Len(resampledData) - 2) :
            /\ LeftIndex(Len(audioData), Len(resampledData), i)
                  \in 0..(Len(audioData) - 1)
            /\ RightIndex(Len(audioData), Len(resampledData), i)
                  \in 0..(Len(audioData) - 1)
            /\ springFactor.num * Len(resampledData) - springFactor.num
                  = springFactor.den * Len(audioData) - springFactor.den
            /\ resampledData[i + 1] # NaNSample

\* C37 witness: two samples at 8000 Hz give four, the inner two at the
\* positions 1/3 and 2/3
C37_Witness ==
    /\ returned
    /\ origSampleRate = 8000
    /\ Len(audioData) = 2
    /\ Len(resampledData) = 4
    /\ RightIndex(2, 4, 1) = LeftIndex(2, 4, 1) + 1

\* C11 (as claimed): at every moment at most one options tab exists and at
\* most one options page has been told to start its capture, also when two
\* start requests overlap at their awaits.
C11_AtMostOneSession ==
    /\ Cardinality(liveTabs) <= 1
    /\ Cardinality(recording) <= 1

=============================================================================
